---------------------------- MODULE Spec2Model ----------------------------
(***************************************************************************)
(* Model of js/packages/cli/src/helpers/upload/arweave-bundle.ts: the      *)
(* generator makeArweaveBundleUploadGenerator, the range computation       *)
(* getBundleRange and the promise chain processBundle that each iteration  *)
(* of the generator's loop yields.                                         *)
(*                                                                         *)
(* A file pair is identified by its key: its two paths are built from the  *)
(* key alone (lines 320-324), so a pair is modelled as its key and the     *)
(* files behind the paths as the variable disk.  A promise yielded by the  *)
(* generator is a record of the variable promises; its field pc is the     *)
(* place the asynchronous code behind it has reached.                      *)
(***************************************************************************)
EXTENDS Integers, Sequences, FiniteSets

(* ------------------------------ bounds -------------------------------- *)

\* longest asset list handed to the generator
MaxAssets == 3

\* promises a caller may leave unsettled while it asks for the next one
MaxInFlight == 2

\* operations (stat, read, sign, fund, upload, post) that fail in one run
MaxFaults == 1

\* calls of generator.next() in one run: enough for the sentinel, one batch
\* per pair, the completion signal and one call after it
MaxNextCalls == MaxAssets + 3

(* ------------------------- program constants -------------------------- *)

MB == 1024 * 1024

\* line 71
BUNDLE_SIZE_BYTE_LIMIT == 50 * 1024 * 1024

\* lines 153-160: Buffer.byteLength(JSON.stringify(dummyAreaveManifest)),
\* the JSON text of the path manifest built from two 43-character ids and
\* the media type ".png"
dummyAreaveManifestByteSize == 223

\* the two members of StorageType the generator distinguishes (lines 303-317)
ArweaveSol == "arweave-sol"
ArweaveBundle == "arweave-bundle"
StorageType == {ArweaveSol, ArweaveBundle}

(* ------------------------------- inputs ------------------------------- *)

\* size of every manifest (JSON) file on disk
ManifestFileSize == MB \div 1024

\* image sizes: 10MB and 40MB (the sizes of the spec's scenario), an image
\* whose pair measures exactly half the limit, and one whose pair measures
\* exactly the limit
HalfImage == (BUNDLE_SIZE_BYTE_LIMIT \div 2) - ManifestFileSize - dummyAreaveManifestByteSize
FullImage == BUNDLE_SIZE_BYTE_LIMIT - ManifestFileSize - dummyAreaveManifestByteSize
ImageSizes == {10 * MB, 40 * MB, HalfImage, FullImage}

Files == [image : ImageSizes, manifest : {ManifestFileSize}]

\* all the disks holding n file pairs, n <= MaxAssets
Disks == UNION {[1..n -> Files] : n \in 0..MaxAssets}

VARIABLES
    storage,        \* parameter storage (line 295)
    jwk,            \* parameter jwk is supplied (line 298)
    walletKeyPair,  \* parameter walletKeyPair is supplied (line 299)
    disk,           \* key -> sizes of the pair's image and manifest files
    gen,            \* where the generator's body is suspended
    filePairs,      \* the array filePairs (line 320): keys still pending
    promises,       \* the promises yielded so far, in yield order
    network,        \* the transactions sent to Bundlr / Arweave so far
    nextCalls,      \* number of generator.next() calls so far
    faults,         \* number of operations that failed so far
    signal          \* what the last generator.next() call gave the caller

vars == <<storage, jwk, walletKeyPair, disk, gen, filePairs, promises,
          network, nextCalls, faults, signal>>

(* ------------------------------ helpers ------------------------------- *)

RECURSIVE SumSeq(_)
SumSeq(s) == IF s = <<>> THEN 0 ELSE Head(s) + SumSeq(Tail(s))

\* assets.map(...) of lines 320-324: one pair per asset, in the order given
AssetKeys == [i \in 1..Len(disk) |-> i]

\* stat(file).size of line 202
Stat(key, file) == IF file = "image" THEN disk[key].image ELSE disk[key].manifest

\* lines 200-205: the reduce over [image, manifest], seeded with the size of
\* the dummy path manifest
FilePairSize(key) ==
    (dummyAreaveManifestByteSize + Stat(key, "image")) + Stat(key, "manifest")

\* OverLimit with > for >=: a range may then measure exactly the limit
OverLimitStrict(total, filePairSize) == total + filePairSize > BUNDLE_SIZE_BYTE_LIMIT

\* line 207
OverLimit(total, filePairSize) == total + filePairSize >= BUNDLE_SIZE_BYTE_LIMIT

\* IsFirstOfRange without the test: the loop breaks where it should throw
NeverFirstOfRange(count) == FALSE

\* line 208: the pair that does not fit is the first of the range
IsFirstOfRange(count) == count = 0

\* HasPending off by one: the loop ends with one pair left
HasPendingMoreThanOne(arr) == Len(arr) > 1

\* line 336: the test of the while loop
HasPending(arr) == Len(arr) # 0

\* PushKey with unshift for push
PushKeyFront(cacheKeys, key) == <<key>> \o cacheKeys

\* line 396: acc.cacheKeys.push(filePair.key)
PushKey(cacheKeys, key) == Append(cacheKeys, key)

\* PushLink with unshift for push
PushLinkFront(links, link) == <<link>> \o links

\* line 402: acc.arweavePathManifestLinks.push(arweavePathManifestLink)
PushLink(links, link) == Append(links, link)

\* SpliceTaken and SpliceLeft with count + 1 for count
SpliceTakenOneMore(arr, count) ==
    SubSeq(arr, 1, IF count + 1 < Len(arr) THEN count + 1 ELSE Len(arr))
SpliceLeftOneMore(arr, count) ==
    SubSeq(arr, (IF count + 1 < Len(arr) THEN count + 1 ELSE Len(arr)) + 1, Len(arr))

\* SpliceLeft that removes nothing from the queue
SpliceLeftAll(arr, count) == arr

\* Array.prototype.splice(0, count) of line 346: the removed elements and
\* what is left of the array
SpliceTaken(arr, count) == SubSeq(arr, 1, IF count < Len(arr) THEN count ELSE Len(arr))
SpliceLeft(arr, count) == SubSeq(arr, (IF count < Len(arr) THEN count ELSE Len(arr)) + 1, Len(arr))

(* ------------------------------ promises ------------------------------ *)

\* the state of the asynchronous code behind one yielded promise
\*   pc      "range"      inside getBundleRange (lines 196-224)
\*           "ranged"     getBundleRange resolved, processBundle not yet run
\*           "process"    inside the reduce of lines 353-414
\*           "processed"  the reduce resolved (line 415 is next)
\*           "upload"     inside the loop of lines 426-432
\*           "fulfilled"  the promise resolved with the result of line 460
\*           "rejected"   the promise rejected with error
\*   cur, idx             the element the for-of of line 199 holds, its index
\*   total, count         the locals of getBundleRange
\*   signed               every DataItem signed on behalf of this promise
Promise(pc, cur) ==
    [pc |-> pc, cur |-> cur, idx |-> 1, total |-> 0, count |-> 0,
     measured |-> <<>>, bundleFilePairs |-> <<>>,
     cacheKeys |-> <<>>, dataItems |-> <<>>,
     arweavePathManifestLinks |-> <<>>, updatedManifests |-> <<>>,
     signed |-> <<>>, uploaded |-> 0, error |-> "none"]

\* EmptyResult with a key in it
NonEmptyFirstResult == [Promise("fulfilled", 0) EXCEPT !.cacheKeys = <<0>>]

\* lines 328-332: Promise.resolve of the empty result
EmptyResult == Promise("fulfilled", 0)

Settled(p) == p.pc \in {"fulfilled", "rejected"}

InFlight == {t \in 1..Len(promises) : ~Settled(promises[t])}

\* Reject swallowing the error: the promise resolves with what was gathered
ResolveWithPartial(p, err) == [p EXCEPT !.pc = "fulfilled", !.error = err]

\* a throw inside the async callback rejects the promise it returned
Reject(p, err) == [p EXCEPT !.pc = "rejected", !.error = err]

\* what the caller receives from a fulfilled promise (line 460)
Result(p) ==
    [cacheKeys |-> p.cacheKeys,
     arweavePathManifestLinks |-> p.arweavePathManifestLinks,
     updatedManifests |-> p.updatedManifests]

(* ------------------------------- Init --------------------------------- *)

Init ==
    /\ storage \in StorageType
    /\ jwk \in BOOLEAN
    /\ walletKeyPair \in BOOLEAN
    /\ disk \in Disks
    /\ gen = "start"
    /\ filePairs = <<>>
    /\ promises = <<>>
    /\ network = {}
    /\ nextCalls = 0
    /\ faults = 0
    /\ signal = "none"

(* --------------------------- the generator ---------------------------- *)

\* a caller that awaits each yielded promise calls next() only when every
\* promise it holds has settled; any other caller may leave up to
\* MaxInFlight promises unsettled
CallerMay(awaits) ==
    /\ nextCalls < MaxNextCalls
    /\ IF awaits THEN InFlight = {} ELSE Cardinality(InFlight) < MaxInFlight

\* lines 303-312: the two checks that throw before the first yield
ConfigurationError ==
    \/ storage = ArweaveSol /\ ~walletKeyPair
    \/ storage = ArweaveBundle

\* first generator.next(): the body runs from line 301 to the yield of
\* line 328, or throws at line 304 or 309
NextStart(awaits) ==
    /\ CallerMay(awaits)
    /\ gen = "start"
    /\ nextCalls' = nextCalls + 1
    /\ IF ConfigurationError
         THEN /\ gen' = "threw"
              /\ signal' = "throw"
              /\ UNCHANGED <<filePairs, promises>>
         ELSE /\ gen' = "suspended"
              /\ signal' = "yield"
              /\ filePairs' = AssetKeys
              /\ promises' = <<EmptyResult>>
    /\ UNCHANGED <<storage, jwk, walletKeyPair, disk, network, faults>>

\* a later generator.next(): the test of line 336, then either the call of
\* getBundleRange (line 337, which runs up to its first await, so the for-of
\* of line 199 has read filePairs[0]) and the yield of line 462, or return
NextLoop(awaits) ==
    /\ CallerMay(awaits)
    /\ gen = "suspended"
    /\ nextCalls' = nextCalls + 1
    /\ IF HasPending(filePairs)
         THEN /\ promises' = Append(promises, Promise("range", filePairs[1]))
              /\ signal' = "yield"
              /\ gen' = gen
         ELSE /\ gen' = "done"
              /\ signal' = "done"
              /\ promises' = promises
    /\ UNCHANGED <<storage, jwk, walletKeyPair, disk, filePairs, network, faults>>

\* generator.next() on a generator that returned or threw: { done: true }
NextFinished(awaits) ==
    /\ CallerMay(awaits)
    /\ gen \in {"done", "threw"}
    /\ nextCalls' = nextCalls + 1
    /\ signal' = "done"
    /\ UNCHANGED <<storage, jwk, walletKeyPair, disk, gen, filePairs,
                   promises, network, faults>>

(* ------------------------------ failures ----------------------------- *)

\* the outcomes of an operation that may fail (TRUE: it succeeds)
Outcomes == IF faults < MaxFaults THEN BOOLEAN ELSE {TRUE}

Count(ok) == IF ok THEN faults ELSE faults + 1

(* --------------------------- getBundleRange --------------------------- *)

\* one iteration of the loop of lines 199-222 for promise t: the two stat
\* calls, the test of line 207, and the iterator's read of the next element
GetBundleRange(t) ==
    LET p == promises[t]
        filePairSize == FilePairSize(p.cur)
    IN
    /\ p.pc = "range"
    /\ \E statOk \in Outcomes :
         /\ faults' = Count(statOk)
         /\ promises' = [promises EXCEPT ![t] =
            IF ~statOk THEN Reject(p, "stat")
            ELSE IF OverLimit(p.total, filePairSize)
            THEN IF IsFirstOfRange(p.count)
                 THEN Reject(p, "tooBig")
                 ELSE [p EXCEPT !.pc = "ranged"]
            ELSE IF p.idx + 1 <= Len(filePairs)
                 THEN [p EXCEPT !.total = @ + filePairSize, !.count = @ + 1,
                                !.measured = Append(@, p.cur),
                                !.idx = @ + 1, !.cur = filePairs[p.idx + 1]]
                 ELSE [p EXCEPT !.total = @ + filePairSize, !.count = @ + 1,
                                !.measured = Append(@, p.cur),
                                !.idx = @ + 1, !.pc = "ranged"]]
    /\ UNCHANGED <<storage, jwk, walletKeyPair, disk, gen, filePairs,
                   network, nextCalls, signal>>

(* ---------------------------- processBundle --------------------------- *)

\* a signed DataItem (lines 231-266): its kind, the pair it was built for
\* and what its data holds
DataItem(kind, key, data) == [kind |-> kind, key |-> key, data |-> data]

\* DataItem.id after sign(): one id per signed item
ItemId(kind, key) == <<kind, key>>

\* the template literal of lines 373 and 393
ArweaveLink(id) == <<"https://arweave.net/", id>>

\* GetUpdatedManifest leaving properties.files as read from disk
GetUpdatedManifestImageOnly(key, imageLink, contentType) ==
    [key |-> key, image |-> imageLink, files |-> <<>>]

\* lines 272-284: the manifest read from disk with image and
\* properties.files overwritten
GetUpdatedManifest(key, imageLink, contentType) ==
    [key |-> key, image |-> imageLink,
     files |-> <<[type |-> contentType, uri |-> imageLink]>>]

\* CreateArweavePathManifest with the two txIds in each other's place
CreateArweavePathManifestSwapped(imageTxId, manifestTxId) ==
    [image |-> manifestTxId, metadata |-> imageTxId, index |-> "metadata.json"]

\* lines 126-148
CreateArweavePathManifest(imageTxId, manifestTxId) ==
    [image |-> imageTxId, metadata |-> manifestTxId, index |-> "metadata.json"]

\* getType(filePair.image) of line 365
ContentType(key) == "image/png"

\* the three DataItems of one pair, in the order lines 367-392 sign them
ImageDataItem(key) == DataItem("image", key, Stat(key, "image"))
ManifestDataItem(key) ==
    DataItem("manifest", key,
             GetUpdatedManifest(key, ArweaveLink(ItemId("image", key)),
                                ContentType(key)))
ArweavePathManifestDataItem(key) ==
    DataItem("pathManifest", key,
             CreateArweavePathManifest(ItemId("image", key),
                                       ItemId("manifest", key)))

\* line 393: the link reported for the pair
ArweavePathManifestLink(key) == ArweaveLink(ItemId("manifest", key))

\* lines 337-346: the callback processBundle starts: log, then splice
ProcessBundle(t) ==
    LET p == promises[t]
        bundleFilePairs == SpliceTaken(filePairs, p.count)
    IN
    /\ p.pc = "ranged"
    /\ filePairs' = SpliceLeft(filePairs, p.count)
    /\ promises' = [promises EXCEPT ![t] =
            [p EXCEPT !.bundleFilePairs = bundleFilePairs,
                      !.pc = IF bundleFilePairs = <<>> THEN "processed"
                                                        ELSE "process"]]
    /\ UNCHANGED <<storage, jwk, walletKeyPair, disk, gen, network,
                   nextCalls, faults, signal>>

\* where processBundleFilePair may fail: reading the image (line 237),
\* reading or parsing the manifest (line 277), the last sign (line 392)
PairFailures ==
    IF faults < MaxFaults THEN {"none", "readImage", "readManifest", "sign"}
                          ELSE {"none"}

\* the DataItems of a pair that are signed before a failure, with the
\* manifest file read before the image is signed
SignedBeforeManifestFirst(failure, key) ==
    CASE failure = "readImage" -> <<>>
      [] failure = "readManifest" -> <<>>
      [] failure = "sign" -> <<ImageDataItem(key), ManifestDataItem(key)>>
      [] OTHER -> <<ImageDataItem(key), ManifestDataItem(key),
                    ArweavePathManifestDataItem(key)>>

\* lines 367-392: the DataItems of a pair that have been signed when the
\* step named by failure throws: the image is signed (line 369) before the
\* manifest file is read (line 375)
SignedBefore(failure, key) ==
    CASE failure = "readImage" -> <<>>
      [] failure = "readManifest" -> <<ImageDataItem(key)>>
      [] failure = "sign" -> <<ImageDataItem(key), ManifestDataItem(key)>>
      [] OTHER -> <<ImageDataItem(key), ManifestDataItem(key),
                    ArweavePathManifestDataItem(key)>>

\* lines 362-407: one call of processBundleFilePair, for the next pair of
\* the bundle
ProcessBundleFilePair(t) ==
    LET p == promises[t]
        key == p.bundleFilePairs[Len(p.cacheKeys) + 1]
        last == Len(p.cacheKeys) + 1 = Len(p.bundleFilePairs)
    IN
    /\ p.pc = "process"
    /\ \E failure \in PairFailures :
         /\ faults' = Count(failure = "none")
         /\ promises' = [promises EXCEPT ![t] =
            IF failure # "none"
            THEN Reject([p EXCEPT !.signed = @ \o SignedBefore(failure, key)],
                        failure)
            ELSE [p EXCEPT
                    !.signed = @ \o SignedBefore(failure, key),
                    !.cacheKeys = PushKey(@, key),
                    !.dataItems = @ \o <<ImageDataItem(key), ManifestDataItem(key),
                                         ArweavePathManifestDataItem(key)>>,
                    !.arweavePathManifestLinks =
                         PushLink(@, ArweavePathManifestLink(key)),
                    !.updatedManifests = Append(@, ManifestDataItem(key).data),
                    !.pc = IF last THEN "processed" ELSE "process"]]
    /\ UNCHANGED <<storage, jwk, walletKeyPair, disk, gen, filePairs,
                   network, nextCalls, signal>>

\* lines 415-425: the Bundlr client, the storage cost and the funding
Fund(t) ==
    LET p == promises[t] IN
    /\ p.pc = "processed"
    /\ storage = ArweaveSol
    /\ \E ok \in Outcomes :
         /\ faults' = Count(ok)
         /\ IF ok
            THEN /\ promises' = [promises EXCEPT ![t] = [p EXCEPT !.pc = "upload"]]
                 /\ network' = network \cup {[op |-> "fund", promise |-> t]}
            ELSE /\ promises' = [promises EXCEPT ![t] = Reject(p, "fund")]
                 /\ network' = network
    /\ UNCHANGED <<storage, jwk, walletKeyPair, disk, gen, filePairs,
                   nextCalls, signal>>

\* NextDataItem walking dataItems from its end
NextDataItemReversed(p) == Len(p.dataItems) - p.uploaded

\* line 426: the index (from 1) of the DataItem the for-of takes next
NextDataItem(p) == p.uploaded + 1

\* lines 426-432: one turn of the loop over dataItems; seq numbers the
\* transactions of one promise in the order they were uploaded
UploadDataItem(t) ==
    LET p == promises[t] IN
    /\ p.pc = "upload"
    /\ p.uploaded < Len(p.dataItems)
    /\ \E ok \in Outcomes :
         /\ faults' = Count(ok)
         /\ IF ok
            THEN /\ promises' = [promises EXCEPT ![t] = [p EXCEPT !.uploaded = @ + 1]]
                 /\ network' = network \cup
                       {[op |-> "upload", promise |-> t, seq |-> p.uploaded + 1,
                         item |-> p.dataItems[NextDataItem(p)]]}
            ELSE /\ promises' = [promises EXCEPT ![t] = Reject(p, "upload")]
                 /\ network' = network
    /\ UNCHANGED <<storage, jwk, walletKeyPair, disk, gen, filePairs,
                   nextCalls, signal>>

\* AtBundleStep when the uploads of lines 426-432 are not awaited
AtBundleStepNoAwait(p) ==
    IF storage = ArweaveSol THEN p.pc = "upload" ELSE p.pc = "processed"

\* the code has reached line 436
AtBundleStep(p) ==
    IF storage = ArweaveSol
    THEN p.pc = "upload" /\ p.uploaded = Len(p.dataItems)
    ELSE p.pc = "processed"

\* lines 436-460: under ArweaveBundle, bundle, sign and post the batch as
\* one transaction; then return the result
PostAndReturn(t) ==
    LET p == promises[t] IN
    /\ AtBundleStep(p)
    /\ \E ok \in Outcomes :
         /\ faults' = Count(ok \/ storage # ArweaveBundle)
         /\ IF storage = ArweaveBundle
            THEN IF ok
                 THEN /\ promises' = [promises EXCEPT ![t] = [p EXCEPT !.pc = "fulfilled"]]
                      /\ network' = network \cup
                            {[op |-> "bundle", promise |-> t, items |-> p.dataItems]}
                 ELSE /\ promises' = [promises EXCEPT ![t] = Reject(p, "post")]
                      /\ network' = network
            ELSE /\ promises' = [promises EXCEPT ![t] = [p EXCEPT !.pc = "fulfilled"]]
                 /\ network' = network
    /\ UNCHANGED <<storage, jwk, walletKeyPair, disk, gen, filePairs,
                   nextCalls, signal>>

(* --------------------------- specifications --------------------------- *)

\* any caller
Next ==
    \/ NextStart(FALSE)
    \/ NextLoop(FALSE)
    \/ NextFinished(FALSE)
    \/ \E t \in 1..Len(promises) : GetBundleRange(t)
    \/ \E t \in 1..Len(promises) : ProcessBundle(t)
    \/ \E t \in 1..Len(promises) : ProcessBundleFilePair(t)
    \/ \E t \in 1..Len(promises) : Fund(t)
    \/ \E t \in 1..Len(promises) : UploadDataItem(t)
    \/ \E t \in 1..Len(promises) : PostAndReturn(t)

Spec == Init /\ [][Next]_vars

\* a caller that awaits each yielded promise before it calls next() again
NextAwait ==
    \/ NextStart(TRUE)
    \/ NextLoop(TRUE)
    \/ NextFinished(TRUE)
    \/ \E t \in 1..Len(promises) : GetBundleRange(t)
    \/ \E t \in 1..Len(promises) : ProcessBundle(t)
    \/ \E t \in 1..Len(promises) : ProcessBundleFilePair(t)
    \/ \E t \in 1..Len(promises) : Fund(t)
    \/ \E t \in 1..Len(promises) : UploadDataItem(t)
    \/ \E t \in 1..Len(promises) : PostAndReturn(t)

SpecAwait == Init /\ [][NextAwait]_vars

\* any caller, handed both credentials: the runs in which a missing
\* credential plays no part
InitPipelined == Init /\ jwk /\ walletKeyPair

SpecPipelined == InitPipelined /\ [][Next]_vars

(* ------------------------------- claims ------------------------------- *)

\* the keys of the asset list handed to the generator, in its order
OriginalKeys == [i \in 1..Len(disk) |-> i]

\* what the first k pairs of list measure: payload, metadata and the fixed
\* overhead of each
PrefixSize(list, k) == SumSeq([i \in 1..k |-> FilePairSize(list[i])])

\* promise t has removed its batch from the queue
Formed(t) ==
    /\ t > 1
    /\ \/ promises[t].pc \in {"process", "processed", "upload", "fulfilled"}
       \/ promises[t].pc = "rejected" /\ promises[t].error \notin {"stat", "tooBig"}

\* the keys removed from the queue by the first n promises, in order
RECURSIVE RemovedKeys(_)
RemovedKeys(n) ==
    IF n = 0 THEN <<>> ELSE RemovedKeys(n - 1) \o promises[n].bundleFilePairs

\* the keys reported by the first n promises, in order
RECURSIVE YieldedKeys(_)
YieldedKeys(n) ==
    IF n = 0 THEN <<>> ELSE YieldedKeys(n - 1) \o promises[n].cacheKeys

ImagesOnDisk == [i \in 1..Len(disk) |-> disk[i].image]

\* C1: when getBundleRange returns, count is the largest k for which the
\* first k pairs of the queue measure strictly less than the limit, and size
\* is what those pairs measure; a pair that brings the total to the limit is
\* left out, and pairs are taken in order (images of 10MB, 10MB and 40MB
\* give a range of 2 pairs and then a range of 1 pair).
C1_GreedyPrefix ==
    \A t \in 1..Len(promises) :
        LET p == promises[t] IN
        p.pc = "ranged" =>
            /\ p.count \in 0..Len(filePairs)
            /\ PrefixSize(filePairs, p.count) < BUNDLE_SIZE_BYTE_LIMIT
            /\ \A k \in 0..Len(filePairs) :
                   PrefixSize(filePairs, k) < BUNDLE_SIZE_BYTE_LIMIT => k <= p.count
            /\ p.total = PrefixSize(filePairs, p.count)
            /\ ImagesOnDisk = <<10 * MB, 10 * MB, 40 * MB>> =>
                   p.count = (IF Len(filePairs) = 3 THEN 2 ELSE 1)

C1_Witness ==
    /\ ImagesOnDisk = <<10 * MB, 10 * MB, 40 * MB>>
    /\ Len(promises) = 3
    /\ promises[2].pc = "fulfilled" /\ promises[2].count = 2
    /\ promises[3].pc = "ranged" /\ promises[3].count = 1
    /\ filePairs = <<3>>

\* C2: with a caller that awaits each promise, every batch removed from a
\* queue that was not empty holds at least one pair, and its pairs measure
\* strictly less than the limit when it holds more than one.
C2_BatchBelowLimit ==
    \A t \in 1..Len(promises) :
        LET p == promises[t]
            n == Len(p.bundleFilePairs)
        IN
        Formed(t) =>
            /\ p.count >= 1
            /\ n = p.count
            /\ n > 1 => PrefixSize(p.bundleFilePairs, n) < BUNDLE_SIZE_BYTE_LIMIT

C2_Witness ==
    \E t \in 1..Len(promises) :
        /\ Formed(t)
        /\ promises[t].pc = "fulfilled"
        /\ Len(promises[t].bundleFilePairs) = 3

\* the pair alone measures the limit or more
Oversized(key) == FilePairSize(key) >= BUNDLE_SIZE_BYTE_LIMIT

\* the transactions promise t has sent
NetworkOf(t) == {tx \in network : tx.promise = t}

\* C3: when the first pending pair alone measures the limit or more, the
\* range computation fails with the too-big error for that pair's key and a
\* count of 0; the queue stays as it was, nothing is built, signed or sent,
\* and no later resumption gives a batch result: the pair is neither
\* skipped nor cut out of the queue.
C3_OversizedFirstPair ==
    \A t \in 2..Len(promises) :
        LET p == promises[t] IN
        /\ p.pc = "ranged" => ~Oversized(filePairs[1])
        /\ Formed(t) => ~Oversized(p.bundleFilePairs[1])
        /\ p.error = "tooBig" =>
              /\ p.pc = "rejected"
              /\ p.count = 0
              /\ Oversized(p.cur)
              /\ filePairs = SubSeq(OriginalKeys, p.cur, Len(disk))
              /\ p.bundleFilePairs = <<>>
              /\ p.signed = <<>>
              /\ NetworkOf(t) = {}
              /\ gen = "suspended"
              /\ \A u \in (t + 1)..Len(promises) :
                    /\ promises[u].pc \in {"range", "rejected"}
                    /\ promises[u].error \in {"none", "tooBig", "stat"}
                    /\ promises[u].signed = <<>>
                    /\ NetworkOf(u) = {}

C3_Witness ==
    /\ Len(promises) >= 4
    /\ promises[2].pc = "fulfilled"
    /\ promises[3].error = "tooBig"
    /\ promises[4].error = "tooBig"
    /\ filePairs # <<>>

\* C4: in a run where nothing fails and the caller awaits each promise, the
\* yielded results hold as many keys as the asset list has entries, and
\* their key lists, put end to end in the order yielded, are the list of
\* keys in its original order.
C4_KeysComplete ==
    (gen = "done" /\ \A t \in 1..Len(promises) : promises[t].pc = "fulfilled") =>
        /\ YieldedKeys(Len(promises)) = OriginalKeys
        /\ SumSeq([t \in 1..Len(promises) |-> Len(promises[t].cacheKeys)]) = Len(disk)

C4_Witness ==
    /\ gen = "done"
    /\ Len(disk) = 3
    /\ Len(promises) = 3
    /\ \A t \in 1..Len(promises) : promises[t].pc = "fulfilled"

\* promise t removes its batch from the queue in this step
Removes(t) ==
    /\ t \in 2..Len(promises)
    /\ promises[t].pc = "ranged"
    /\ promises'[t].pc \in {"process", "processed"}
    /\ promises'[t].bundleFilePairs = SubSeq(filePairs, 1, promises[t].count)
    /\ filePairs' = SubSeq(filePairs, promises[t].count + 1, Len(filePairs))
    /\ Len(filePairs') = Len(filePairs) - promises[t].count

\* C5: each batch shortens the queue by the count its range computation
\* returned, taking the leading pairs; the queue is always a suffix of the
\* original list, and no other step changes it.
C5_QueueShrinksByCount ==
    /\ [](gen \in {"suspended", "done"} =>
            RemovedKeys(Len(promises)) \o filePairs = OriginalKeys)
    /\ [][(gen # "start" /\ filePairs' # filePairs) =>
            \E t \in 1..Len(promises) : Removes(t)]_vars
    /\ [][\A t \in 1..Len(promises) :
            (promises[t].pc = "ranged" /\ promises'[t].pc # "ranged") => Removes(t)]_vars

C5_Witness ==
    /\ Len(promises) = 3
    /\ promises[2].bundleFilePairs = <<1>>
    /\ promises[3].bundleFilePairs = <<2, 3>>
    /\ filePairs = <<>>

\* no promise was rejected and the generator did not throw
NoFailure ==
    /\ gen # "threw"
    /\ \A t \in 1..Len(promises) : promises[t].pc # "rejected"

\* C6: a resumption of the suspended generator signals completion exactly
\* when the queue is empty at that resumption, and nothing is yielded after
\* completion; with a caller that awaits each promise and no failure, the
\* generator has completed by resumption number (pairs + 2); for an empty
\* list the first resumption yields the empty result and the second signals
\* completion.
C6_CompletionIffEmpty ==
    /\ [][(gen = "suspended" /\ nextCalls' = nextCalls + 1) =>
            /\ (signal' = "done") <=> (filePairs = <<>>)
            /\ (gen' = "done") <=> (filePairs = <<>>)
            /\ (Len(promises') = Len(promises) + 1) <=> (filePairs # <<>>)]_vars
    /\ [][gen = "done" =>
            gen' = "done" /\ signal' = "done" /\ promises' = promises]_vars
    /\ [](gen = "done" => filePairs = <<>> /\ signal = "done")
    /\ []((NoFailure /\ nextCalls >= Len(disk) + 2) => gen = "done")
    /\ []((Len(disk) = 0 /\ gen # "threw") =>
            /\ nextCalls = 1 => signal = "yield" /\ Len(promises) = 1
            /\ nextCalls >= 2 => signal = "done" /\ Len(promises) = 1)

C6_Witness ==
    /\ gen = "done"
    /\ Len(disk) = 3
    /\ Len(promises) = 4
    /\ nextCalls = 6

\* the result of line 460 with nothing in it
NoKeysNoLinksNoManifests ==
    [cacheKeys |-> <<>>, arweavePathManifestLinks |-> <<>>, updatedManifests |-> <<>>]

\* nothing was measured, read, signed or sent
NoWorkDone ==
    /\ network = {}
    /\ faults = 0
    /\ \A t \in 1..Len(promises) :
          /\ promises[t].pc = "fulfilled"
          /\ promises[t].total = 0
          /\ promises[t].signed = <<>>

\* C7 as claimed: the first resumption yields the empty result for every
\* configuration and asset list, and nothing is measured, read, signed or
\* sent before the second resumption is requested.
C7_FirstAlwaysEmpty ==
    /\ nextCalls = 1 =>
          /\ signal = "yield"
          /\ Len(promises) = 1
          /\ Result(promises[1]) = NoKeysNoLinksNoManifests
    /\ nextCalls <= 1 => NoWorkDone

\* C7 as amended: the first resumption yields the empty result unless the
\* checks of lines 303-312 throw, and then it raises that error and yields
\* nothing; either way nothing is measured, read, signed or sent before the
\* second resumption is requested.
C7_FirstEmptyUnlessThrown ==
    /\ nextCalls = 1 =>
          IF (storage = ArweaveSol /\ ~walletKeyPair) \/ storage = ArweaveBundle
          THEN signal = "throw" /\ promises = <<>>
          ELSE /\ signal = "yield"
               /\ Len(promises) = 1
               /\ Result(promises[1]) = NoKeysNoLinksNoManifests
    /\ nextCalls <= 1 => NoWorkDone

C7_Witness ==
    /\ nextCalls = 1
    /\ signal = "yield"
    /\ Len(disk) = 3
    /\ filePairs = <<1, 2, 3>>

\* the credential the chosen strategy needs was not passed
MissingCredential ==
    \/ storage = ArweaveSol /\ ~walletKeyPair
    \/ storage = ArweaveBundle /\ ~jwk

\* C8: the generator fails with the configuration error exactly when the
\* credential of the chosen strategy is missing; with the credential, under
\* either strategy, it goes on to batching.
C8_ConfigErrorIffMissingCredential ==
    nextCalls >= 1 =>
        /\ (gen = "threw") <=> MissingCredential
        /\ ~MissingCredential => gen \in {"suspended", "done"}

UploadsOf(t) == {tx \in NetworkOf(t) : tx.op = "upload"}

\* the units of promise t reached the network the way the chosen strategy
\* sends them
SubmittedAsSelected(t) ==
    LET p == promises[t] IN
    IF storage = ArweaveBundle
    THEN NetworkOf(t) = {[op |-> "bundle", promise |-> t, items |-> p.dataItems]}
    ELSE /\ UploadsOf(t) =
              {[op |-> "upload", promise |-> t, seq |-> j, item |-> p.dataItems[j]] :
                  j \in 1..Len(p.dataItems)}
         /\ NetworkOf(t) \ UploadsOf(t) = {[op |-> "fund", promise |-> t]}

\* the part of C9 that holds: a batch result is yielded only after all the
\* units of the batch were sent by the chosen strategy
SubmittedBeforeResult ==
    \A t \in 2..Len(promises) :
        (promises[t].pc = "fulfilled" /\ promises[t].cacheKeys # <<>>) =>
            /\ Len(promises[t].dataItems) = 3 * Len(promises[t].cacheKeys)
            /\ SubmittedAsSelected(t)

C10_PerUnitOrder ==
    /\ [](storage = ArweaveSol =>
            \A t \in 2..Len(promises) :
                LET p == promises[t] IN
                /\ p.uploaded <= Len(p.dataItems)
                /\ UploadsOf(t) =
                      {[op |-> "upload", promise |-> t, seq |-> j,
                        item |-> p.dataItems[j]] : j \in 1..p.uploaded}
                /\ UploadsOf(t) # {} => [op |-> "fund", promise |-> t] \in network
                /\ p.error = "fund" => NetworkOf(t) = {}
                /\ p.error = "upload" =>
                      p.pc = "rejected" /\ p.uploaded < Len(p.dataItems)
                /\ p.pc = "fulfilled" => p.uploaded = Len(p.dataItems))
    /\ [][\A t \in 1..Len(promises) :
            /\ promises[t].pc = "rejected" =>
                  /\ promises'[t] = promises[t]
                  /\ {tx \in network' : tx.promise = t} = NetworkOf(t)
            /\ promises'[t].uploaded \in
                  {promises[t].uploaded, promises[t].uploaded + 1}]_vars

C10_Witness ==
    \E t \in 2..Len(promises) :
        /\ promises[t].error = "upload"
        /\ promises[t].uploaded = 2
        /\ Len(promises[t].dataItems) = 6
        /\ Cardinality(UploadsOf(t)) = 2

\* the errors processBundleFilePair can end with
PairErrors == {"readImage", "readManifest", "sign"}

KeysOf(list) == {list[i] : i \in 1..Len(list)}

\* the DataItems of list that belong to the pair key
ItemsOfPair(list, key) == SelectSeq(list, LAMBDA d : d.key = key)

\* the transactions on the network that carry a DataItem of the pair key
SubmittedOfPair(key) ==
    {tx \in network :
        \/ tx.op = "upload" /\ tx.item.key = key
        \/ tx.op = "bundle" /\ ItemsOfPair(tx.items, key) # <<>>}

\* the pair processBundleFilePair was working on when promise p was rejected
FailedKey(p) == p.bundleFilePairs[Len(p.cacheKeys) + 1]

\* C11: when building or signing one pair of a batch fails, the promise of
\* that batch is rejected with the error, nothing of the batch reaches the
\* network, no fulfilled promise reports a key of the batch, and the result
\* of a promise that was fulfilled never changes afterwards.
C11_PairFailureAbortsBatch ==
    /\ [](\A t \in 1..Len(promises) :
            LET p == promises[t] IN
            p.error \in PairErrors =>
                /\ p.pc = "rejected"
                /\ p.bundleFilePairs # <<>>
                /\ NetworkOf(t) = {}
                /\ \A key \in KeysOf(p.bundleFilePairs) :
                       /\ SubmittedOfPair(key) = {}
                       /\ \A u \in 1..Len(promises) :
                              promises[u].pc = "fulfilled" =>
                                  key \notin KeysOf(promises[u].cacheKeys))
    /\ [][\A t \in 1..Len(promises) :
            promises[t].pc = "fulfilled" =>
                /\ promises'[t].pc = "fulfilled"
                /\ Result(promises'[t]) = Result(promises[t])]_vars

C11_Witness ==
    \E t \in 3..Len(promises) :
        /\ promises[t].error = "sign"
        /\ Len(promises[t].bundleFilePairs) = 2
        /\ Len(promises[t].cacheKeys) = 1
        /\ promises[t - 1].pc = "fulfilled"
        /\ promises[t - 1].cacheKeys # <<>>
        /\ gen = "done"

\* C12 as stated: when the manifest file of a pair cannot be read or parsed,
\* the promise is rejected and no DataItem of that pair has been built,
\* signed or submitted.
C12_NothingBuiltOnBadManifest ==
    \A t \in 1..Len(promises) :
        LET p == promises[t] IN
        p.error = "readManifest" =>
            /\ p.pc = "rejected"
            /\ ItemsOfPair(p.signed, FailedKey(p)) = <<>>
            /\ SubmittedOfPair(FailedKey(p)) = {}

\* C12: when the manifest file of a pair cannot be read or parsed, the
\* promise is rejected; the image DataItem of that pair has already been
\* built and signed, and it is the only DataItem of the pair that has; it is
\* not among the DataItems of the batch, and nothing of the pair or of the
\* batch is submitted.
C12_OnlyImageSignedOnBadManifest ==
    \A t \in 1..Len(promises) :
        LET p == promises[t] IN
        p.error = "readManifest" =>
            /\ p.pc = "rejected"
            /\ Len(ItemsOfPair(p.signed, FailedKey(p))) = 1
            /\ ItemsOfPair(p.signed, FailedKey(p))[1].kind = "image"
            /\ ItemsOfPair(p.dataItems, FailedKey(p)) = <<>>
            /\ SubmittedOfPair(FailedKey(p)) = {}
            /\ NetworkOf(t) = {}

C12_Witness ==
    \E t \in 2..Len(promises) :
        /\ promises[t].error = "readManifest"
        /\ Len(promises[t].cacheKeys) = 1
        /\ Len(promises[t].signed) = 4
        /\ FailedKey(promises[t]) = 2

\* what promise p reports at index i: the key with its link and its updated
\* manifest
Reported(p, i) ==
    [key |-> p.cacheKeys[i], link |-> p.arweavePathManifestLinks[i],
     manifest |-> p.updatedManifests[i]]

\* what the code computes for a pair from the pair's own files alone
PairOutput(key) ==
    [key |-> key, link |-> ArweavePathManifestLink(key),
     manifest |-> GetUpdatedManifest(key, ArweaveLink(ItemId("image", key)),
                                     ContentType(key))]

\* C13: what is reported for a key is a function of the pair's own files
\* alone (the signer being deterministic): whichever batch the pair falls
\* in, at whichever index, and whatever the earlier batches were, the key
\* is reported with the same link and the same updated manifest; so a run
\* over the pairs left after a prefix reports them as the full run does.
C13_OutputOfPairAlone ==
    \A t \in 1..Len(promises) :
        LET p == promises[t] IN
        /\ Len(p.arweavePathManifestLinks) = Len(p.cacheKeys)
        /\ Len(p.updatedManifests) = Len(p.cacheKeys)
        /\ \A i \in 1..Len(p.cacheKeys) : Reported(p, i) = PairOutput(p.cacheKeys[i])

\* a key reported second in the second batch of a run
C13_Witness ==
    /\ Len(promises) >= 3
    /\ promises[2].pc = "fulfilled"
    /\ promises[2].cacheKeys = <<1>>
    /\ promises[3].pc = "fulfilled"
    /\ promises[3].cacheKeys = <<2, 3>>
    /\ Reported(promises[3], 2) = PairOutput(3)

\* all the work of the batch of promise t is done
WorkComplete(t) ==
    LET p == promises[t] IN
    /\ p.cacheKeys = p.bundleFilePairs
    /\ Len(p.dataItems) = 3 * Len(p.bundleFilePairs)
    /\ p.signed = p.dataItems
    /\ IF storage = ArweaveSol
       THEN p.bundleFilePairs # <<>> =>
               /\ p.uploaded = Len(p.dataItems)
               /\ Cardinality(UploadsOf(t)) = Len(p.dataItems)
       ELSE [op |-> "bundle", promise |-> t, items |-> p.dataItems] \in network

\* C14 as stated: when generator.next() returns, the work of the batch it
\* started is complete, and at most one batch is in progress at any time.
C14_BatchCompleteAtReturn ==
    /\ [](Cardinality(InFlight) <= 1)
    /\ [][nextCalls' = nextCalls + 1 => InFlight' = {}]_vars

\* C14: generator.next() starts the work of at most one batch and returns
\* its promise at once, with none of the batch built or sent; that work is
\* complete when the promise is fulfilled and a settled promise does nothing
\* more; no batch starts between two calls of next(), and a call made when
\* no promise is pending leaves at most one batch in progress, so a caller
\* that awaits each promise has one batch in progress at a time; within a
\* batch the pairs are processed one at a time.
C14_OneBatchPerResumption ==
    /\ [](\A t \in 2..Len(promises) :
            promises[t].pc = "fulfilled" => WorkComplete(t))
    /\ [][nextCalls' = nextCalls + 1 =>
            /\ Len(promises') \in {Len(promises), Len(promises) + 1}
            /\ SubSeq(promises', 1, Len(promises)) = promises
            /\ network' = network
            /\ gen # "start" => filePairs' = filePairs
            /\ Len(promises') > Len(promises) /\ Len(promises) >= 1 =>
                  /\ promises'[Len(promises')].signed = <<>>
                  /\ promises'[Len(promises')].bundleFilePairs = <<>>
            /\ InFlight = {} => Cardinality(InFlight') <= 1]_vars
    /\ [][nextCalls' = nextCalls =>
            /\ Len(promises') = Len(promises)
            /\ InFlight' \subseteq InFlight]_vars
    /\ [][\A t \in 1..Len(promises) :
            /\ Settled(promises[t]) =>
                  /\ promises'[t] = promises[t]
                  /\ {tx \in network' : tx.promise = t} = NetworkOf(t)
            /\ Len(promises'[t].cacheKeys) <= Len(promises[t].cacheKeys) + 1
            /\ Len(promises'[t].signed) <= Len(promises[t].signed) + 3]_vars

\* two batches in progress at once, the second started before the first
\* one's promise settled
C14_Witness ==
    \E t, u \in 2..Len(promises) :
        /\ t < u
        /\ promises[t].pc = "process"
        /\ promises[u].pc = "process"
        /\ signal = "yield"

\* the id of a signed DataItem
IdOf(d) == ItemId(d.kind, d.key)

\* the three DataItems promise p built for the pair it reports at index i
ImageItemAt(p, i) == p.dataItems[3 * i - 2]
ManifestItemAt(p, i) == p.dataItems[3 * i - 1]
PathManifestItemAt(p, i) == p.dataItems[3 * i]

\* C15: the pairs of a batch are processed one after the other in queue
\* order; each adds three DataItems, image then manifest then path
\* manifest, so a batch of count pairs has 3 * count DataItems and, once
\* fulfilled, has submitted exactly those; keys, links and updated manifests
\* have one entry per pair at the same index; the path manifest of a pair
\* holds the ids of the image and manifest DataItems of that same pair.
C15_ThreeUnitsPerPairInOrder ==
    \A t \in 2..Len(promises) :
        LET p == promises[t] IN
        /\ p.cacheKeys = SubSeq(p.bundleFilePairs, 1, Len(p.cacheKeys))
        /\ Len(p.dataItems) = 3 * Len(p.cacheKeys)
        /\ Len(p.arweavePathManifestLinks) = Len(p.cacheKeys)
        /\ Len(p.updatedManifests) = Len(p.cacheKeys)
        /\ \A i \in 1..Len(p.cacheKeys) :
               /\ ImageItemAt(p, i).kind = "image"
               /\ ManifestItemAt(p, i).kind = "manifest"
               /\ PathManifestItemAt(p, i).kind = "pathManifest"
               /\ \A j \in (3 * i - 2)..(3 * i) : p.dataItems[j].key = p.cacheKeys[i]
               /\ PathManifestItemAt(p, i).data.image = IdOf(ImageItemAt(p, i))
               /\ PathManifestItemAt(p, i).data.metadata = IdOf(ManifestItemAt(p, i))
               /\ p.updatedManifests[i].key = p.cacheKeys[i]
               /\ p.arweavePathManifestLinks[i] \in
                      {ArweaveLink(IdOf(p.dataItems[j])) : j \in (3 * i - 2)..(3 * i)}
        /\ p.pc = "fulfilled" =>
               /\ p.cacheKeys = p.bundleFilePairs
               /\ Len(p.bundleFilePairs) = p.count
               /\ storage = ArweaveSol =>
                      {tx.item : tx \in UploadsOf(t)} = KeysOf(p.dataItems)
               /\ storage = ArweaveSol =>
                      Cardinality(UploadsOf(t)) = 3 * p.count

C15_Witness ==
    \E t \in 2..Len(promises) :
        /\ promises[t].pc = "fulfilled"
        /\ promises[t].count = 3
        /\ promises[t].cacheKeys = <<1, 2, 3>>
        /\ Cardinality(UploadsOf(t)) = 9

\* C16: the updated manifest reported for a key has as image the link made
\* from the id of the signed image DataItem of that pair, and as
\* properties.files the single entry of the image's content type and that
\* link; it is the document the signed manifest DataItem of the pair
\* carries, and the one that is uploaded.
C16_ManifestLinksOwnImage ==
    \A t \in 2..Len(promises) :
        LET p == promises[t] IN
        \A i \in 1..Len(p.cacheKeys) :
            LET m == p.updatedManifests[i]
                key == p.cacheKeys[i]
            IN
            /\ m.key = key
            /\ ImageItemAt(p, i).key = key /\ ImageItemAt(p, i).kind = "image"
            /\ m.image = <<"https://arweave.net/", IdOf(ImageItemAt(p, i))>>
            /\ m.files = <<[type |-> ContentType(key), uri |-> m.image]>>
            /\ ManifestItemAt(p, i).data = m
            /\ \A j \in 1..Len(p.signed) :
                   p.signed[j].kind = "manifest" /\ p.signed[j].key = key =>
                       p.signed[j].data = m
            /\ \A tx \in UploadsOf(t) :
                   tx.item.kind = "manifest" /\ tx.item.key = key =>
                       tx.item.data = m

C16_Witness ==
    \E t \in 3..Len(promises) :
        /\ promises[t].pc = "fulfilled"
        /\ promises[t].cacheKeys = <<2, 3>>
        /\ promises[t].updatedManifests[2].image =
              <<"https://arweave.net/", <<"image", 3>>>>
        /\ \E tx \in UploadsOf(t) :
              tx.item.kind = "manifest" /\ tx.item.key = 3

\* C17: the link reported at index i is the one made from the id of the
\* signed path manifest DataItem built for the key at index i, and from no
\* other DataItem's id.
C17_LinkIsOfPathManifest ==
    \A t \in 2..Len(promises) :
        LET p == promises[t] IN
        \A i \in 1..Len(p.cacheKeys) :
            /\ PathManifestItemAt(p, i).kind = "pathManifest"
            /\ PathManifestItemAt(p, i).key = p.cacheKeys[i]
            /\ p.arweavePathManifestLinks[i] =
                   <<"https://arweave.net/", IdOf(PathManifestItemAt(p, i))>>

\* C18: whatever the caller does, the pairs a batch removes from the queue
\* and processes are the pairs its range computation counted, in the same
\* order, so a batch of more than one pair measures less than the limit.
C18_RemovedAreMeasured ==
    \A t \in 2..Len(promises) :
        LET p == promises[t] IN
        Formed(t) =>
            /\ p.bundleFilePairs = p.measured
            /\ Len(p.bundleFilePairs) > 1 =>
                   PrefixSize(p.bundleFilePairs, Len(p.bundleFilePairs))
                       < BUNDLE_SIZE_BYTE_LIMIT

\* the DataItems signed on behalf of the first n promises, in order
RECURSIVE SignedBy(_)
SignedBy(n) ==
    IF n = 0 THEN <<>> ELSE SignedBy(n - 1) \o promises[n].signed

\* no two elements of list are equal
NoRepeat(list) ==
    \A i, j \in 1..Len(list) : i < j => list[i] # list[j]

\* the keys reported by fulfilled promises among the first n, in order
RECURSIVE ReportedKeys(_)
ReportedKeys(n) ==
    IF n = 0 THEN <<>>
    ELSE ReportedKeys(n - 1) \o
            (IF promises[n].pc = "fulfilled" THEN promises[n].cacheKeys ELSE <<>>)

\* the keys of the batches of rejected promises
KeysOfRejected ==
    UNION {KeysOf(promises[t].bundleFilePairs) :
              t \in {u \in 1..Len(promises) : promises[u].pc = "rejected"}}

\* C19: whatever the caller does, a key of the asset list is removed from
\* the queue by at most one batch, is reported by at most one fulfilled
\* promise, at one index, and each of its DataItems is signed at most once;
\* and when the generator has returned and every promise has settled, every
\* key is reported by exactly one fulfilled promise or was in the batch of a
\* rejected promise.
C19_EachKeyOnceNoneDropped ==
    LET removed == RemovedKeys(Len(promises))
        reported == ReportedKeys(Len(promises))
        signedIds == [j \in 1..Len(SignedBy(Len(promises))) |->
                         IdOf(SignedBy(Len(promises))[j])]
    IN
    /\ NoRepeat(removed)
    /\ KeysOf(removed) \subseteq KeysOf(OriginalKeys)
    /\ NoRepeat(reported)
    /\ KeysOf(reported) \subseteq KeysOf(removed)
    /\ NoRepeat(signedIds)
    /\ (gen = "done" /\ InFlight = {}) =>
           KeysOf(OriginalKeys) = KeysOf(reported) \cup KeysOfRejected

\* a finished run in which a batch removed other pairs than it had counted,
\* one batch was rejected and another fulfilled
C19_Witness ==
    /\ gen = "done"
    /\ InFlight = {}
    /\ Len(disk) = 3
    /\ \E t, u \in 2..Len(promises) :
          /\ promises[t].pc = "rejected"
          /\ promises[t].bundleFilePairs # <<>>
          /\ promises[u].pc = "fulfilled"
          /\ promises[u].cacheKeys # <<>>
          /\ promises[u].bundleFilePairs # promises[u].measured

=============================================================================
